---- MODULE Spec2Model ----
(***************************************************************************)
(* A model of the generic-domain part of the Ideate MCP server:            *)
(*   - ConfigLoader (config-loader.ts): load / get / reload of the domain  *)
(*     descriptor, with the process-wide cached config;                    *)
(*   - registerGenericTools (generic-tools.ts): the tools registered for a *)
(*     config and the zod contracts built from its field descriptors.      *)
(*                                                                         *)
(* JavaScript values are modelled as follows.  An object is a TLA+ record  *)
(* whose DOMAIN is the set of keys the object has, so an optional key that *)
(* is absent (undefined) is a key outside the DOMAIN.  The value null of   *)
(* `DomainConfig | null` is the record Null.                               *)
(***************************************************************************)
EXTENDS Integers, Sequences, FiniteSets, TLC

\* ------------------------------------------------------------------ bounds
\* longest fields array of the descriptors that vary their fields
MaxFields == 2
\* declared min / max of number fields range over 0..MaxNum
MaxNum == 2

\* ------------------------------------------------------------ JS helpers
Null == [null |-> TRUE]

Has(obj, k) == k \in DOMAIN obj

\* JS truthiness of obj.k, by the type of value the key holds when present:
\* undefined is falsy; a string is truthy unless empty; a boolean is truthy
\* when true; an array is truthy, also the empty one.
TruthyStr(obj, k) == Has(obj, k) /\ obj[k] # ""
TruthyBool(obj, k) == Has(obj, k) /\ obj[k] = TRUE
TruthyArr(obj, k) == Has(obj, k)

\* obj.k !== false, for a boolean-valued optional key
NotFalse(obj, k) == ~Has(obj, k) \/ obj[k] # FALSE

\* the set of all sequences over S of length at most n
RECURSIVE SeqUpTo(_, _)
SeqUpTo(S, n) ==
    IF n = 0 THEN {<<>>}
    ELSE LET shorter == SeqUpTo(S, n - 1)
         IN  shorter \cup {Append(s, x) : s \in {t \in shorter : Len(t) = n - 1}, x \in S}

\* all objects whose keys are a subset of Keys and whose values are booleans
PartialBool(Keys) == UNION {[D -> BOOLEAN] : D \in SUBSET Keys}

\* obj without the keys in Drop
Without(obj, Drop) == [k \in DOMAIN obj \ Drop |-> obj[k]]

\* obj with key k set to v
With(obj, k, v) == [x \in DOMAIN obj \cup {k} |-> IF x = k THEN v ELSE obj[x]]

\* the object {}
EmptyObj == [k \in {} |-> TRUE]

\* {...a, ...b}: the keys of both, b's value where both have the key
Spread(a, b) == [k \in DOMAIN a \cup DOMAIN b |-> IF k \in DOMAIN b THEN b[k] ELSE a[k]]

\* ------------------------------------------------------------ descriptors
\* FieldConfig.type (config-loader.ts:13)
FieldTypes == {"string", "text", "number", "boolean", "date", "datetime"}
\* a type token outside FieldTypes, as a descriptor file may hold one
UnknownType == "enum"
TypeTokens == FieldTypes \cup {UnknownType}

\* the keys load checks (config-loader.ts:93)
RequiredKeys == {"domain", "label", "labelPlural", "fields"}
\* FeaturesConfig (config-loader.ts:31-37)
FeatureFlags == {"create", "update", "delete", "archive", "search"}
\* generic-tools.ts:108
systemFields == {"id", "created_date", "updated_date", "archived"}

MkField(key, type) == [key |-> key, label |-> key, type |-> type]

\* one user key, every type token, required absent / true / false
TypeSlice ==
    {MkField("name", t) : t \in TypeTokens}
    \cup {With(MkField("name", t), "required", r) : t \in TypeTokens, r \in BOOLEAN}

\* a field with every combination of declared min / max, on a number and on
\* a non-number type
NumSlice ==
    {Spread(f, b) :
        b \in [{"min", "max"} -> 0..MaxNum] \cup [{"min"} -> 0..MaxNum]
               \cup [{"max"} -> 0..MaxNum] \cup {EmptyObj},
        f \in {MkField("price", "number"), MkField("price", "string"),
               With(MkField("price", "number"), "required", TRUE)}}

\* fields that interact when they meet in one descriptor: duplicate keys,
\* reserved keys, an unknown type token
MixSlice ==
    { With(MkField("name", "string"), "required", TRUE),
      MkField("name", "number"),
      With(With(MkField("price", "number"), "min", 0), "max", 1),
      With(MkField("id", "number"), "required", TRUE),
      MkField("archived", "string"),
      With(MkField("created_date", "number"), "required", TRUE),
      MkField("updated_date", "boolean"),
      With(MkField("kind", UnknownType), "required", TRUE) }

BaseConfig ==
    [ domain |-> "products", label |-> "Product", labelPlural |-> "Products",
      fields |-> << With(MkField("name", "string"), "required", TRUE) >> ]

AltConfig ==
    [ domain |-> "tasks", label |-> "Task", labelPlural |-> "Tasks",
      features |-> [archive |-> TRUE, delete |-> FALSE],
      fields |-> << MkField("id", "string"),
                    With(MkField("title", "string"), "required", TRUE) >> ]

FeatureConfigs ==
    {BaseConfig} \cup {With(BaseConfig, "features", f) : f \in PartialBool(FeatureFlags)}

FieldConfigs ==
    {[BaseConfig EXCEPT !.fields = <<f>>] : f \in TypeSlice \cup NumSlice}
    \cup {[BaseConfig EXCEPT !.fields = s] : s \in SeqUpTo(MixSlice, MaxFields)}

\* a field with the optional keys hidden and default, required or not
OptionSlice ==
    {Spread(f, o) :
        f \in {MkField("name", "string"), With(MkField("name", "string"), "required", TRUE)},
        o \in PartialBool({"hidden"}) \cup {[default |-> "x"]}}

OptionConfigs == {[BaseConfig EXCEPT !.fields = <<f>>] : f \in OptionSlice}

\* descriptors that lack a required key, or hold it with a falsy value
BrokenDescriptors ==
    {Without(c, D) : c \in {BaseConfig, AltConfig}, D \in (SUBSET RequiredKeys) \ {{}}}
    \cup {[BaseConfig EXCEPT !.domain = ""], [BaseConfig EXCEPT !.label = ""]}

Descriptors == FeatureConfigs \cup FieldConfigs \cup OptionConfigs \cup BrokenDescriptors

\* a file that is not JSON, and a file holding the JSON text null
Garbage == [file |-> "garbage"]
JsonNull == [file |-> "null"]
FileContents == Descriptors \cup {Garbage, JsonNull}

\* ------------------------------------------------------------ ConfigLoader
\* path.resolve against the working directory
Resolve(path) == "/cwd/" \o path

CfgPath == "cfg.json"
AltPath == "alt.json"
MissingPath == "missing.json"
\* configPath arguments; "" stands for an omitted argument (both are falsy)
PathArgs == {"", CfgPath, AltPath, MissingPath}

VARIABLES
    env,        \* process.env.DOMAIN_CONFIG, "" when unset
    files,      \* the file system: resolved path -> content
    config,     \* ConfigLoader.config
    result,     \* what the last call returned
    console,    \* the kinds of message the loader has written to the console
    lastOp,     \* the last call
    lastPath,   \* its configPath argument
    server,     \* the tools registered on the McpServer, in registration order
    toolConfig, \* the config registerGenericTools was called with, Null before
    toolCall,   \* the last tool call: tool name, operation and input
    apiRequest, \* the backend request the handler made for it
    apiResponse,\* the backend's response to that request
    toolResult, \* what the handler returned or threw
    detailView, \* what the detail widget last rendered
    detailState,\* the detail widget's widget state, Null before its render
    showMenu,   \* whether the detail widget's action menu is open
    listView,   \* the list widget's items and config, Null before its render
    listState,  \* the list widget's widget state, Null before its render
    openai,     \* whether the host API window.openai is present
    hostEffects \* what the last widget handler asked of the host, in order

\* the widgets' own state
widgetVars == <<detailState, showMenu, listView, listState, hostEffects>>

\* the state of tool calls and widgets, untouched by loader and registration
appVars == <<toolCall, apiRequest, apiResponse, toolResult, detailView,
             detailState, showMenu, listView, listState, openai, hostEffects>>

\* mutant of MissingRequired: the validation forgets the fields key
MissingRequired_NoFields(data) ==
    \/ ~TruthyStr(data, "domain")
    \/ ~TruthyStr(data, "label")
    \/ ~TruthyStr(data, "labelPlural")

\* the basic validation of load (config-loader.ts:93)
MissingRequired(data) ==
    \/ ~TruthyStr(data, "domain")
    \/ ~TruthyStr(data, "label")
    \/ ~TruthyStr(data, "labelPlural")
    \/ ~TruthyArr(data, "fields")

\* mutant of ReadConfig: the parsed data is cached before it is validated
ReadConfig_CacheBeforeValidate(configPath) ==
    LET path == IF configPath # "" THEN configPath ELSE env
        resolvedPath == Resolve(path)
        none(msg) == [config |-> Null, result |-> Null, log |-> msg]
    IN  IF path = "" THEN none("no-path")
        ELSE IF resolvedPath \notin DOMAIN files THEN none("not-found")
        ELSE LET data == files[resolvedPath]
             IN  IF data = Garbage THEN none("failed")
                 ELSE IF data = JsonNull THEN none("failed")
                 ELSE IF MissingRequired(data)
                      THEN [config |-> data, result |-> Null, log |-> "failed"]
                 ELSE [config |-> data, result |-> data, log |-> "loaded"]

\* load(configPath) past the cache check (config-loader.ts:73-103): the new
\* this.config, the value returned and the console message written
ReadConfig(configPath) ==
    LET path == IF configPath # "" THEN configPath ELSE env
        resolvedPath == Resolve(path)
        none(msg) == [config |-> Null, result |-> Null, log |-> msg]
    IN  IF path = "" THEN none("no-path")
        ELSE IF resolvedPath \notin DOMAIN files THEN none("not-found")
        ELSE LET data == files[resolvedPath]
             IN  IF data = Garbage THEN none("failed")           \* JSON.parse throws
                 ELSE IF data = JsonNull THEN none("failed")     \* data.domain throws
                 ELSE IF MissingRequired(data) THEN none("failed")
                 ELSE [config |-> data, result |-> data, log |-> "loaded"]

\* mutant of LoadOutcome: load without the cache check
LoadOutcome_NoCache(cfg, configPath) == ReadConfig(configPath)

\* load(configPath) with this.config = cfg
LoadOutcome(cfg, configPath) ==
    IF cfg # Null THEN [config |-> cfg, result |-> cfg, log |-> "cached"]
    ELSE ReadConfig(configPath)

Load(configPath) ==
    LET out == LoadOutcome(config, configPath)
    IN  /\ config' = out.config
        /\ result' = out.result
        /\ console' = console \cup ({out.log} \ {"cached"})
        /\ lastOp' = "load"
        /\ lastPath' = configPath
        /\ UNCHANGED <<env, files, server, toolConfig>>
        /\ UNCHANGED appVars

Get ==
    /\ result' = config
    /\ lastOp' = "get"
    /\ lastPath' = ""
    /\ UNCHANGED <<env, files, config, console, server, toolConfig>>
    /\ UNCHANGED appVars

\* reload(configPath): this.config = null, then load
Reload(configPath) ==
    LET out == LoadOutcome(Null, configPath)
    IN  /\ config' = out.config
        /\ result' = out.result
        /\ console' = console \cup ({out.log} \ {"cached"})
        /\ lastOp' = "reload"
        /\ lastPath' = configPath
        /\ UNCHANGED <<env, files, server, toolConfig>>
        /\ UNCHANGED appVars

\* getRequiredFields() with this.config = cfg (config-loader.ts:124-127)
getRequiredFields(cfg) ==
    IF cfg = Null THEN << >>
    ELSE SelectSeq(cfg.fields, LAMBDA f : TruthyBool(f, "required") /\ ~TruthyBool(f, "hidden"))

\* mutant of getListFields: hidden fields stay in the list
getListFields_KeepHidden(cfg) ==
    IF cfg = Null THEN << >>
    ELSE SelectSeq(cfg.fields, LAMBDA f : TruthyBool(f, "showInList"))

\* getListFields() with this.config = cfg
getListFields(cfg) ==
    IF cfg = Null THEN << >>
    ELSE SelectSeq(cfg.fields, LAMBDA f : TruthyBool(f, "showInList") /\ ~TruthyBool(f, "hidden"))

\* getDetailFields() with this.config = cfg
getDetailFields(cfg) ==
    IF cfg = Null THEN << >>
    ELSE SelectSeq(cfg.fields, LAMBDA f : NotFalse(f, "showInDetail") /\ ~TruthyBool(f, "hidden"))

\* ------------------------------------------------------------ zod schemas
\* A zod schema is a record: kind, optional (wrapped by .optional()), the
\* checks min / max of a number when declared, description, and shape /
\* element for z.object / z.array.
ZString == [kind |-> "string", optional |-> FALSE]
ZNumber == [kind |-> "number", optional |-> FALSE]
ZBoolean == [kind |-> "boolean", optional |-> FALSE]
ZAny == [kind |-> "any", optional |-> FALSE]
ZObject(shape) == [kind |-> "object", optional |-> FALSE, shape |-> shape]
ZArray(element) == [kind |-> "array", optional |-> FALSE, element |-> element]

\* mutant of ZMin: an exclusive lower bound
ZMin_Exclusive(schema, m) == With(schema, "min", m + 1)

\* schema.min(m), schema.max(m): inclusive bounds (zod's gte / lte)
ZMin(schema, m) == With(schema, "min", m)
ZMax(schema, m) == With(schema, "max", m)
ZOptional(schema) == [schema EXCEPT !.optional = TRUE]
ZDescribe(schema, text) == With(schema, "description", text)

\* JS values offered to a contract
Undefined == [t |-> "undefined"]
JsNull == [t |-> "null"]
Str(s) == [t |-> "string", v |-> s]
Bool(b) == [t |-> "boolean", v |-> b]
Num(n) == [t |-> "number", v |-> n]
Numbers == (0 - 1)..(MaxNum + 1)
Values == {Undefined, JsNull, Str("x"), Str("2024-01-31"), Bool(TRUE), Bool(FALSE)}
          \cup {Num(n) : n \in Numbers}

\* schema.safeParse(value).success, for the scalar kinds
AcceptsValue(schema, value) ==
    IF schema.kind = "any" THEN TRUE
    ELSE IF value = Undefined THEN schema.optional
    ELSE CASE schema.kind = "string" -> value.t = "string"
           [] schema.kind = "boolean" -> value.t = "boolean"
           [] schema.kind = "number" ->
                /\ value.t = "number"
                /\ (Has(schema, "min") => value.v >= schema.min)
                /\ (Has(schema, "max") => value.v <= schema.max)
           [] OTHER -> FALSE

\* z.object(shape).safeParse(payload).success: every key of the shape is
\* parsed, a key the payload lacks as undefined; unknown keys are stripped
AcceptsObject(shape, payload) ==
    \A k \in DOMAIN shape :
        AcceptsValue(shape[k], IF Has(payload, k) THEN payload[k] ELSE Undefined)

\* a key of a contract that a payload must carry
Mandatory(shape, k) == Has(shape, k) /\ ~AcceptsValue(shape[k], Undefined)

\* ------------------------------------------------------------ generic tools
fieldToZodSchema(field) ==
    LET typed ==
            CASE field.type \in {"string", "text"} -> ZString
              [] field.type = "number" ->
                    LET lower == IF Has(field, "min") THEN ZMin(ZNumber, field.min) ELSE ZNumber
                    IN  IF Has(field, "max") THEN ZMax(lower, field.max) ELSE lower
              [] field.type = "boolean" -> ZBoolean
              [] field.type \in {"date", "datetime"} -> ZString
              [] OTHER -> ZAny
        schema == IF ~TruthyBool(field, "required") THEN ZOptional(typed) ELSE typed
        description == IF TruthyStr(field, "helpText") THEN field.helpText ELSE field.label
    IN  ZDescribe(schema, description)

\* the system part of entitySchema (generic-tools.ts:100-106)
SystemEntitySchema ==
    [ id |-> ZString, archived |-> ZBoolean,
      created_date |-> ZString, updated_date |-> ZString ]

\* mutant of AddFields: the system-field guard is missing
RECURSIVE AddFields_NoSystemGuard(_, _, _)
AddFields_NoSystemGuard(schema, fields, i) ==
    IF i > Len(fields) THEN schema
    ELSE AddFields_NoSystemGuard(
            With(schema, fields[i].key, fieldToZodSchema(fields[i])), fields, i + 1)

\* config.fields.forEach from field i on: a field whose key is no system
\* field is assigned into the schema, replacing an earlier entry of that key
RECURSIVE AddFields(_, _, _)
AddFields(schema, fields, i) ==
    IF i > Len(fields) THEN schema
    ELSE AddFields(
            IF fields[i].key \notin systemFields
            THEN With(schema, fields[i].key, fieldToZodSchema(fields[i]))
            ELSE schema,
            fields, i + 1)

entitySchema(cfg) == AddFields(SystemEntitySchema, cfg.fields, 1)
createSchema(cfg) == AddFields(EmptyObj, cfg.fields, 1)

IdInput == [id |-> ZDescribe(ZString, "id")]

\* mutant of updateInputSchema: the entries are rebuilt without their checks
updateInputSchema_Unchecked(cfg) ==
    LET create == createSchema(cfg)
    IN  Spread(IdInput,
               [k \in DOMAIN create |-> ZOptional(Without(create[k], {"min", "max"}))])

\* mutant of updateInputSchema: the create entries are spread as they are
updateInputSchema_KeepRequired(cfg) == Spread(IdInput, createSchema(cfg))

\* the update tool's inputSchema (generic-tools.ts:272-277)
updateInputSchema(cfg) ==
    LET create == createSchema(cfg)
    IN  Spread(IdInput, [k \in DOMAIN create |-> ZOptional(create[k])])

ListInput ==
    [ includeArchived |-> ZDescribe(ZOptional(ZBoolean), "includeArchived"),
      archivedOnly |-> ZDescribe(ZOptional(ZBoolean), "archivedOnly") ]

ItemOutput(cfg) == [item |-> ZObject(entitySchema(cfg))]
ListOutput(cfg) == [items |-> ZArray(ZObject(entitySchema(cfg))), count |-> ZNumber]
StatusOutput == [success |-> ZBoolean, message |-> ZString]

\* mutant of FeatureNotFalse: a flag counts as enabled only when it is true
FeatureNotFalse_DefaultOff(cfg, flag) ==
    Has(cfg, "features") /\ TruthyBool(cfg.features, flag)

\* config.features?.flag !== false   and   config.features?.flag
FeatureNotFalse(cfg, flag) == ~Has(cfg, "features") \/ NotFalse(cfg.features, flag)
FeatureOn(cfg, flag) == Has(cfg, "features") /\ TruthyBool(cfg.features, flag)

ToolName(op, domain) == op \o "_" \o domain

Tool(op, cfg, input, output) ==
    [name |-> ToolName(op, cfg.domain), op |-> op, inputSchema |-> input, outputSchema |-> output]

\* the server.registerTool calls of registerGenericTools, in order
RegisteredTools(cfg) ==
    << Tool("list", cfg, ListInput, ListOutput(cfg)),
       Tool("get", cfg, IdInput, ItemOutput(cfg)) >>
    \o (IF FeatureNotFalse(cfg, "create")
        THEN << Tool("create", cfg, createSchema(cfg), ItemOutput(cfg)) >> ELSE << >>)
    \o (IF FeatureNotFalse(cfg, "update")
        THEN << Tool("update", cfg, updateInputSchema(cfg), ItemOutput(cfg)) >> ELSE << >>)
    \o (IF FeatureNotFalse(cfg, "delete")
        THEN << Tool("delete", cfg, IdInput, StatusOutput) >> ELSE << >>)
    \o (IF FeatureOn(cfg, "archive")
        THEN << Tool("archive", cfg, IdInput, StatusOutput),
                Tool("restore", cfg, IdInput, StatusOutput) >> ELSE << >>)

\* registerGenericTools(server, config, manifest), called once at startup
\* with the config the loader holds
RegisterGenericTools ==
    /\ config # Null
    /\ toolConfig = Null
    /\ server' = server \o RegisteredTools(config)
    /\ toolConfig' = config
    /\ lastOp' = "register"
    /\ UNCHANGED <<env, files, config, result, console, lastPath>>
    /\ UNCHANGED appVars

LoaderInit ==
    /\ env \in {"", CfgPath}
    /\ files \in {[p \in {Resolve(CfgPath), Resolve(AltPath)} |->
                     IF p = Resolve(CfgPath) THEN c ELSE AltConfig] : c \in FileContents}
    /\ config = Null
    /\ result = Null
    /\ console = {}
    /\ lastOp = "none"
    /\ lastPath = ""

vars == <<env, files, config, result, console, lastOp, lastPath, server, toolConfig,
          toolCall, apiRequest, apiResponse, toolResult, detailView,
          detailState, showMenu, listView, listState, openai, hostEffects>>

\* no widget is mounted
WidgetIdle ==
    /\ detailView = Null
    /\ detailState = Null
    /\ showMenu = FALSE
    /\ listView = Null
    /\ listState = Null
    /\ hostEffects = << >>

\* no tool has been called, no widget has rendered; the widgets run in
\* the host
AppIdle ==
    /\ toolCall = Null
    /\ apiRequest = Null
    /\ apiResponse = Null
    /\ toolResult = Null
    /\ WidgetIdle
    /\ openai = TRUE

Init ==
    /\ LoaderInit
    /\ server = << >>
    /\ toolConfig = Null
    /\ AppIdle

Next ==
    \/ \E p \in PathArgs : Load(p)
    \/ Get
    \/ \E p \in PathArgs : Reload(p)
    \/ RegisterGenericTools

Spec == Init /\ [][Next]_vars

\* ------------------------------------------------------------ tool calls
\* the longest list the backend returns
MaxItems == 2

\* String(value) of a JS value
ToText(v) ==
    CASE v.t = "string" -> v.v
      [] v.t = "number" -> ToString(v.v)
      [] v.t = "boolean" -> (IF v.v THEN "true" ELSE "false")
      [] v.t = "null" -> "null"
      [] OTHER -> "undefined"

\* the truthiness of a JS value
Truthy(v) ==
    CASE v.t = "string" -> v.v # ""
      [] v.t = "number" -> v.v # 0
      [] v.t = "boolean" -> v.v
      [] OTHER -> FALSE

\* String.prototype.toLowerCase, on the labels and keys the descriptors hold
toLowerCase(s) ==
    CASE s = "Product" -> "product"
      [] s = "Products" -> "products"
      [] s = "Task" -> "task"
      [] s = "Tasks" -> "tasks"
      [] s = "Urgency" -> "urgency"
      [] OTHER -> s

\* the entities the backend stores: every value a JS value; the second one
\* is archived, was updated after its creation and has no notes; the third
\* has no archived key and a null priority
ItemIds == {"p1", "p2", "p3"}
Entity(id) ==
    LET base == [ id |-> Str(id),
                  created_date |-> Str("2024-01-01T00:00:00.000Z"),
                  updated_date |-> Str(CASE id = "p2" -> "2024-02-01T00:00:00.000Z"
                                         [] id = "p3" -> "2024-03-01T00:00:00.000Z"
                                         [] OTHER -> "2024-01-01T00:00:00.000Z"),
                  name |-> Str("Mouse"), Urgency |-> Num(5), price |-> Num(25) ]
    IN CASE id = "p2" -> Spread(base, [archived |-> Bool(TRUE), priority |-> Num(1)])
         [] id = "p3" -> Spread(base, [priority |-> JsNull])
         [] OTHER -> Spread(base, [archived |-> Bool(FALSE), priority |-> Num(2),
                                   notes |-> Str("margin 40%")])
Entities == {Entity(id) : id \in ItemIds}

\* a response body: JSON text holding a value, or text that is not JSON
JsonBody(value) == [json |-> TRUE, value |-> value]
TextBody(text) == [json |-> FALSE, text |-> text]

Response(status, statusText, body) ==
    [status |-> status, statusText |-> statusText, body |-> body]

\* responses with a non-OK status: their bodies hold backend internals
FailedResponses ==
    {Response(st[1], st[2], b) :
        st \in {<<404, "Not Found">>, <<500, "Internal Server Error">>},
        b \in {JsonBody([detail |-> "sqlite3.IntegrityError in store.py"]),
               TextBody("Traceback (most recent call last)")}}

\* what the backend may answer to the request of operation op
Responses(op) ==
    FailedResponses
    \cup {Response(200, "OK", TextBody("<html>"))}
    \cup CASE op = "list" ->
                {Response(200, "OK", JsonBody(s)) : s \in SeqUpTo(Entities, MaxItems)}
           [] op \in {"get", "create", "update"} ->
                {Response(200, "OK", JsonBody(e)) : e \in Entities \cup {JsNull}}
           [] OTHER ->
                {Response(200, "OK", JsonBody([ok |-> Bool(TRUE)])),
                 Response(204, "No Content", TextBody(""))}

\* new Date().toISOString()
Clock == {"2024-05-01T10:00:00.000Z"}

\* process.env.IDEATE_API_URL || "http://localhost:5055"
IDEATE_API_BASE == "http://localhost:5055"

\* response.ok
Ok(resp) == resp.status >= 200 /\ resp.status <= 299

\* JSON.stringify(obj): keys holding undefined are left out
JSONstringify(obj) ==
    [json |-> TRUE, value |-> Without(obj, {k \in DOMAIN obj : obj[k] = Undefined})]

\* mutant of makeApiRequest: a failed request yields an empty value, no error
makeApiRequest_NoStatusCheck(endpoint, options, resp) ==
    LET request == Spread([ url |-> IDEATE_API_BASE \o endpoint, method |-> "GET",
                            headers |-> [ContentType |-> "application/json"] ], options)
    IN IF ~Ok(resp)
       THEN [ request |-> request, bodyUsed |-> FALSE, threw |-> FALSE, value |-> EmptyObj ]
       ELSE IF ~resp.body.json
       THEN [ request |-> request, bodyUsed |-> TRUE, threw |-> TRUE,
              error |-> [name |-> "SyntaxError", message |-> "Unexpected token"] ]
       ELSE [ request |-> request, bodyUsed |-> TRUE, threw |-> FALSE,
              value |-> resp.body.value ]

\* mutant of makeApiRequest: the error of a failed request quotes the body
makeApiRequest_BodyInError(endpoint, options, resp) ==
    LET request == Spread([ url |-> IDEATE_API_BASE \o endpoint, method |-> "GET",
                            headers |-> [ContentType |-> "application/json"] ], options)
    IN IF ~Ok(resp)
       THEN [ request |-> request, bodyUsed |-> TRUE, threw |-> TRUE,
              error |-> [ name |-> "Error",
                          message |-> "API request failed: " \o ToString(resp.status)
                                      \o " " \o resp.statusText,
                          body |-> resp.body ] ]
       ELSE IF ~resp.body.json
       THEN [ request |-> request, bodyUsed |-> TRUE, threw |-> TRUE,
              error |-> [name |-> "SyntaxError", message |-> "Unexpected token"] ]
       ELSE [ request |-> request, bodyUsed |-> TRUE, threw |-> FALSE,
              value |-> resp.body.value ]

\* makeApiRequest(endpoint, options), the backend answering resp: the request
\* sent, whether the body was consumed, and the value returned or error thrown
makeApiRequest(endpoint, options, resp) ==
    LET request == Spread([ url |-> IDEATE_API_BASE \o endpoint, method |-> "GET",
                            headers |-> [ContentType |-> "application/json"] ], options)
    IN IF ~Ok(resp)
       THEN [ request |-> request, bodyUsed |-> FALSE, threw |-> TRUE,
              error |-> [ name |-> "Error",
                          message |-> "API request failed: " \o ToString(resp.status)
                                      \o " " \o resp.statusText ] ]
       ELSE IF ~resp.body.json
       THEN [ request |-> request, bodyUsed |-> TRUE, threw |-> TRUE,
              error |-> [name |-> "SyntaxError", message |-> "Unexpected token"] ]
       ELSE [ request |-> request, bodyUsed |-> TRUE, threw |-> FALSE,
              value |-> resp.body.value ]

\* what a handler hands back: a result, or the error it threw
Result(text, structuredContent, meta) ==
    [kind |-> "result", content |-> text, structuredContent |-> structuredContent, meta |-> meta]
Thrown(error) == [kind |-> "error", error |-> error]

\* a handler's run: its backend exchange and its outcome
Run(api, outcome) == [api |-> api, outcome |-> outcome]

\* a destructured flag with the default false
FlagOf(input, k) == IF Has(input, k) THEN input[k] ELSE Bool(FALSE)

\* URLSearchParams.toString() of the list handler's query
QueryString(includeArchived, archivedOnly) ==
    (IF Truthy(includeArchived) THEN "includeArchived=true" ELSE "")
    \o (IF Truthy(includeArchived) /\ Truthy(archivedOnly) THEN "&" ELSE "")
    \o (IF Truthy(archivedOnly) THEN "archivedOnly=true" ELSE "")

\* mutant of listContent: archived items are filtered out of the answer
listContent_DropArchived(items) ==
    [ items |-> SelectSeq(items, LAMBDA e : ~(Has(e, "archived") /\ Truthy(e.archived))),
      count |-> Len(items) ]

\* structuredContent of the list tool
listContent(items) == [items |-> items, count |-> Len(items)]

listHandler(cfg, input, resp, now) ==
    LET includeArchived == FlagOf(input, "includeArchived")
        archivedOnly == FlagOf(input, "archivedOnly")
        query == QueryString(includeArchived, archivedOnly)
        endpoint == "/" \o cfg.domain \o (IF query # "" THEN "?" \o query ELSE "")
        api == makeApiRequest(endpoint, EmptyObj, resp)
    IN IF api.threw THEN Run(api, Thrown(api.error))
       ELSE Run(api, Result(
                "Found " \o ToString(Len(api.value)) \o " "
                    \o (IF Truthy(archivedOnly) THEN "archived " ELSE "")
                    \o toLowerCase(cfg.labelPlural),
                listContent(api.value),
                [ config |-> cfg,
                  filters |-> [includeArchived |-> includeArchived, archivedOnly |-> archivedOnly],
                  lastSyncedAt |-> now ]))

getHandler(cfg, input, resp, now) ==
    LET api == makeApiRequest("/" \o cfg.domain \o "/" \o input.id.v, EmptyObj, resp)
    IN IF api.threw THEN Run(api, Thrown(api.error))
       ELSE Run(api, Result(
                "Loaded " \o toLowerCase(cfg.label) \o ": " \o input.id.v,
                [item |-> api.value],
                [config |-> cfg, loadedAt |-> now, itemId |-> input.id]))

\* item.id: a TypeError on null, undefined on an object without the key
IdOf(item) == IF Has(item, "id") THEN item.id ELSE Undefined
NullItemError == [name |-> "TypeError", message |-> "Cannot read properties of null"]

createHandler(cfg, input, resp, now) ==
    LET api == makeApiRequest("/" \o cfg.domain,
                              [method |-> "POST", body |-> JSONstringify(input)], resp)
    IN IF api.threw THEN Run(api, Thrown(api.error))
       ELSE IF api.value = JsNull THEN Run(api, Thrown(NullItemError))
       ELSE Run(api, Result(
                "Created new " \o toLowerCase(cfg.label),
                [item |-> api.value],
                [ config |-> cfg, operation |-> "create", createdAt |-> now,
                  itemId |-> IdOf(api.value) ]))

updateHandler(cfg, input, resp, now) ==
    LET updates == Without(input, {"id"})
        api == makeApiRequest("/" \o cfg.domain \o "/" \o input.id.v,
                              [method |-> "PUT", body |-> JSONstringify(updates)], resp)
    IN IF api.threw THEN Run(api, Thrown(api.error))
       ELSE IF api.value = JsNull THEN Run(api, Thrown(NullItemError))
       ELSE Run(api, Result(
                "Updated " \o toLowerCase(cfg.label),
                [item |-> api.value],
                [ config |-> cfg, operation |-> "update", updatedAt |-> now,
                  itemId |-> IdOf(api.value) ]))

\* the message of the delete, archive and restore tools
StatusMessage(cfg, id, done) == cfg.label \o " " \o id.v \o " has been " \o done

deleteHandler(cfg, input, resp, now) ==
    LET api == makeApiRequest("/" \o cfg.domain \o "/" \o input.id.v,
                              [method |-> "DELETE"], resp)
    IN IF api.threw THEN Run(api, Thrown(api.error))
       ELSE Run(api, Result(
                StatusMessage(cfg, input.id, "deleted"),
                [success |-> TRUE, message |-> StatusMessage(cfg, input.id, "deleted")],
                [operation |-> "delete", deletedAt |-> now, itemId |-> input.id]))

archiveHandler(cfg, input, resp, now) ==
    LET api == makeApiRequest("/" \o cfg.domain \o "/" \o input.id.v \o "/archive",
                              [method |-> "POST"], resp)
    IN IF api.threw THEN Run(api, Thrown(api.error))
       ELSE Run(api, Result(
                StatusMessage(cfg, input.id, "archived"),
                [success |-> TRUE, message |-> StatusMessage(cfg, input.id, "archived")],
                [operation |-> "archive", archivedAt |-> now, itemId |-> input.id]))

restoreHandler(cfg, input, resp, now) ==
    LET api == makeApiRequest("/" \o cfg.domain \o "/" \o input.id.v \o "/restore",
                              [method |-> "POST"], resp)
    IN IF api.threw THEN Run(api, Thrown(api.error))
       ELSE Run(api, Result(
                StatusMessage(cfg, input.id, "restored"),
                [success |-> TRUE, message |-> StatusMessage(cfg, input.id, "restored")],
                [operation |-> "restore", restoredAt |-> now, itemId |-> input.id]))

\* the handler registered for operation op
Handler(op, cfg, input, resp, now) ==
    CASE op = "list" -> listHandler(cfg, input, resp, now)
      [] op = "get" -> getHandler(cfg, input, resp, now)
      [] op = "create" -> createHandler(cfg, input, resp, now)
      [] op = "update" -> updateHandler(cfg, input, resp, now)
      [] op = "delete" -> deleteHandler(cfg, input, resp, now)
      [] op = "archive" -> archiveHandler(cfg, input, resp, now)
      [] op = "restore" -> restoreHandler(cfg, input, resp, now)

\* the arguments a client may send to the tool of operation op
IdPayloads == {[id |-> Str(i)] : i \in ItemIds}
ItemPayloads ==
    { EmptyObj, [name |-> Str("Mouse")], [name |-> Str("Mouse"), colour |-> Str("grey")],
      [name |-> Num(1)] }
Payloads(op) ==
    CASE op = "list" ->
            { EmptyObj, [includeArchived |-> Bool(TRUE)], [archivedOnly |-> Bool(TRUE)],
              [includeArchived |-> Bool(TRUE), archivedOnly |-> Bool(TRUE)],
              [includeArchived |-> Bool(FALSE), archivedOnly |-> Num(1)] }
      [] op = "create" -> ItemPayloads
      [] op = "update" -> {Spread(p, [id |-> Str("p1")]) : p \in ItemPayloads} \cup ItemPayloads
      [] OTHER -> IdPayloads \cup {EmptyObj}

\* z.object(shape).parse(payload): the keys of the shape the payload holds
ParsedInput(shape, payload) == [k \in DOMAIN shape \cap DOMAIN payload |-> payload[k]]

\* the request a handler sends: it is built before the response exists
RequestOf(op, cfg, input) ==
    Handler(op, cfg, input, Response(0, "", TextBody("")), "").api.request

\* a tools/call request, one call at a time: the server validates the
\* arguments against the tool's inputSchema and runs the handler on the
\* parsed arguments up to its await of the backend's response; the widget
\* of the previous call is gone
CallTool(i, payload) ==
    /\ toolCall = Null \/ toolResult # Null
    /\ i \in DOMAIN server
    /\ payload \in Payloads(server[i].op)
    /\ AcceptsObject(server[i].inputSchema, payload)
    /\ LET tool == server[i]
           input == ParsedInput(tool.inputSchema, payload)
       IN /\ toolCall' = [name |-> tool.name, op |-> tool.op, input |-> input]
          /\ apiRequest' = RequestOf(tool.op, toolConfig, input)
    /\ apiResponse' = Null
    /\ toolResult' = Null
    /\ detailView' = Null
    /\ detailState' = Null
    /\ showMenu' = FALSE
    /\ listView' = Null
    /\ listState' = Null
    /\ hostEffects' = << >>
    /\ lastOp' = "call"
    /\ UNCHANGED <<env, files, config, result, console, lastPath, server, toolConfig, openai>>

\* the backend answers and the handler runs to its end; it closes over the
\* config the tools were registered with
Respond(resp, now) ==
    /\ toolCall # Null
    /\ toolResult = Null
    /\ resp \in Responses(toolCall.op)
    /\ LET run == Handler(toolCall.op, toolConfig, toolCall.input, resp, now)
       IN /\ apiResponse' = With(resp, "bodyUsed", run.api.bodyUsed)
          /\ toolResult' = run.outcome
    /\ lastOp' = "respond"
    /\ UNCHANGED <<env, files, config, result, console, lastPath, server, toolConfig,
                   toolCall, apiRequest, detailView, openai>>
    /\ UNCHANGED widgetVars

\* ------------------------------------------------------------ detail widget
\* shouldShowField(field, view)
shouldShowField(field, view) ==
    IF TruthyBool(field, "hidden") THEN FALSE
    ELSE IF view = "list" THEN Has(field, "showInList") /\ field.showInList = TRUE
    ELSE NotFalse(field, "showInDetail")

\* getFieldsForView(config, view)
getFieldsForView(cfg, view) ==
    SelectSeq(cfg.fields, LAMBDA f : shouldShowField(f, view))

\* Array.prototype.find, given the elements that pass the test in their
\* order: the first one, as a sequence of one element, or the empty
\* sequence for undefined
Find(passing) == IF passing = << >> THEN << >> ELSE << passing[1] >>

\* getFieldValue(entity, field)
getFieldValue(entity, field) ==
    IF Has(entity, field.key) THEN entity[field.key] ELSE Undefined

\* Number(value); the strings of the model are not numerals
NaN == [t |-> "NaN"]
Number(v) ==
    CASE v.t = "number" -> v
      [] v.t = "boolean" -> Num(IF v.v THEN 1 ELSE 0)
      [] OTHER -> NaN

\* getPriorityInfo(priority).label
getPriorityInfo(priority) ==
    IF priority.t # "number" THEN "Medium"
    ELSE CASE priority.v = 5 -> "Urgent"
           [] priority.v = 4 -> "High"
           [] priority.v = 3 -> "Medium"
           [] priority.v = 2 -> "Low"
           [] priority.v = 1 -> "Lowest"
           [] OTHER -> "Medium"

\* formatFieldValue(value, field); the date types render in the locale's form
formatFieldValue(value, field) ==
    IF value = JsNull \/ value = Undefined THEN "-"
    ELSE CASE field.type = "number" -> ToText(value)
           [] field.type = "boolean" -> (IF Truthy(value) THEN "Yes" ELSE "No")
           [] field.type = "date" -> "LocaleDate(" \o ToText(value) \o ")"
           [] field.type = "datetime" -> "LocaleDateTime(" \o ToText(value) \o ")"
           [] OTHER -> ToText(value)

\* what the detail widget puts on screen
Shown(text, field) == [text |-> text, field |-> field]
EmptyDetail == [screen |-> "No item selected"]

\* GenericDetailApp: the render of the detail widget from the tool output
\* and the tool response metadata
GenericDetailApp(toolOutput, metadata) ==
    IF ~Has(toolOutput, "item") \/ toolOutput.item = JsNull \/ ~Has(metadata, "config")
    THEN EmptyDetail
    ELSE
    LET item == toolOutput.item
        cfg == metadata.config
        detailFields == getFieldsForView(cfg, "detail")
        priorityField == Find(SelectSeq(detailFields, LAMBDA f :
            toLowerCase(f.key) \in {"priority", "urgency", "importance"}))
        priorityValue == IF priorityField # << >>
                         THEN getFieldValue(item, priorityField[1]) ELSE JsNull
        listString == Find(SelectSeq(cfg.fields, LAMBDA f :
            TruthyBool(f, "showInList") /\ f.type = "string"))
        titleField == IF listString # << >> THEN listString
                      ELSE Find(SelectSeq(cfg.fields, LAMBDA f : f.type = "string"))
        title == IF titleField # << >>
                 THEN ToText(getFieldValue(item, titleField[1])) ELSE ToText(item.id)
        descField == Find(SelectSeq(cfg.fields, LAMBDA f : f.type = "text"))
        description == IF descField # << >> /\ Truthy(getFieldValue(item, descField[1]))
                       THEN ToText(getFieldValue(item, descField[1])) ELSE ""
        excludedKeys == {f.key : f \in {titleField[i] : i \in DOMAIN titleField}
                                        \cup {descField[i] : i \in DOMAIN descField}
                                        \cup {priorityField[i] : i \in DOMAIN priorityField}}
                        \cup {"id", "archived", "created_date", "updated_date"}
        otherFields == SelectSeq(detailFields, LAMBDA f : f.key \notin excludedKeys)
    IN [ screen |-> "detail",
         item |-> item,
         config |-> cfg,
         title |-> Shown(title, titleField),
         description |-> IF description # "" THEN << Shown(description, descField) >> ELSE << >>,
         priority |-> IF Truthy(priorityValue)
                      THEN << Shown(getPriorityInfo(Number(priorityValue)), priorityField) >>
                      ELSE << >>,
         created |-> item.created_date,
         updated |-> IF item.updated_date # item.created_date
                     THEN << item.updated_date >> ELSE << >>,
         rows |-> [ i \in DOMAIN otherFields |->
                      [ label |-> otherFields[i].label,
                        text |-> formatFieldValue(getFieldValue(item, otherFields[i]), otherFields[i]),
                        field |-> << otherFields[i] >> ] ] ]

\* the initial widget state of the list widget and of the detail widget
ListInitialState ==
    [favorites |-> << >>, sortBy |-> "updated_date", sortOrder |-> "desc", viewMode |-> "list"]
DetailInitialState == [favorites |-> << >>, viewMode |-> "detail"]

\* the host renders the detail widget, the output template of the get,
\* create and update tools, with the tool's result; the widget mounts with
\* its initial widget state and its menu closed
RenderDetail ==
    /\ toolResult # Null
    /\ detailView = Null
    /\ toolResult.kind = "result"
    /\ toolCall.op \in {"get", "create", "update"}
    /\ detailView' = GenericDetailApp(toolResult.structuredContent, toolResult.meta)
    /\ detailState' = DetailInitialState
    /\ showMenu' = FALSE
    /\ hostEffects' = << >>
    /\ lastOp' = "render"
    /\ UNCHANGED <<env, files, config, result, console, lastPath, server, toolConfig,
                   toolCall, apiRequest, apiResponse, toolResult, listView, listState, openai>>

\* what a widget handler asks of the host
CallToolEffect(name, args) == [type |-> "callTool", name |-> name, args |-> args]
FollowUp(prompt) == [type |-> "sendFollowUpMessage", prompt |-> prompt]
\* window.confirm(text) and the user's answer to it
Confirm(text, answer) == [type |-> "confirm", text |-> text, answer |-> answer]
ShareEffect(title, text) == [type |-> "share", title |-> title, text |-> text]

\* Array.prototype.includes
Includes(seq, x) == \E i \in DOMAIN seq : seq[i] = x

\* widgetState?.favorites || []
FavoritesOf(state) == IF Has(state, "favorites") THEN state.favorites ELSE << >>

\* mutant of toggleFavorite: the id is appended whether or not it is there
toggleFavorite_AlwaysAdd(state, itemId) ==
    Spread(state, [favorites |-> FavoritesOf(state) \o << itemId >>])

\* handleToggleFavorite of both widgets: the new widget state
toggleFavorite(state, itemId) ==
    LET favorites == FavoritesOf(state)
        newFavorites == IF Includes(favorites, itemId)
                        THEN SelectSeq(favorites, LAMBDA id : id # itemId)
                        ELSE favorites \o << itemId >>
    IN Spread(state, [favorites |-> newFavorites])

\* the detail widget is on screen with an item
DetailMounted == detailView # Null /\ detailView.screen = "detail"

\* handleToggleFavorite of the detail widget
DetailToggleFavorite ==
    /\ DetailMounted
    /\ detailState' = toggleFavorite(detailState, detailView.item.id)
    /\ hostEffects' = << >>
    /\ lastOp' = "detail.favorite"
    /\ UNCHANGED <<env, files, config, result, console, lastPath, server, toolConfig,
                   toolCall, apiRequest, apiResponse, toolResult, detailView, showMenu,
                   listView, listState, openai>>

\* handleBackToList
HandleBackToList ==
    /\ DetailMounted
    /\ detailState' = Spread(detailState, [viewMode |-> "list", selectedItem |-> Undefined])
    /\ hostEffects' = IF openai
                      THEN << FollowUp("Show me my " \o toLowerCase(detailView.config.labelPlural)) >>
                      ELSE << >>
    /\ lastOp' = "detail.back"
    /\ UNCHANGED <<env, files, config, result, console, lastPath, server, toolConfig,
                   toolCall, apiRequest, apiResponse, toolResult, detailView, showMenu,
                   listView, listState, openai>>

\* the menu button: setShowMenu(!showMenu)
ToggleMenu ==
    /\ DetailMounted
    /\ showMenu' = ~showMenu
    /\ hostEffects' = << >>
    /\ lastOp' = "detail.menu"
    /\ UNCHANGED <<env, files, config, result, console, lastPath, server, toolConfig,
                   toolCall, apiRequest, apiResponse, toolResult, detailView, detailState,
                   listView, listState, openai>>

\* mutant of detailMenu: Delete is offered whatever the features say
detailMenu_DeleteAlways(cfg, item) ==
    (IF ~Has(cfg, "features") \/ NotFalse(cfg.features, "update") THEN << "Edit" >> ELSE << >>)
    \o (IF Has(cfg, "features") /\ TruthyBool(cfg.features, "archive")
        THEN << IF Has(item, "archived") /\ Truthy(item.archived) THEN "Unarchive" ELSE "Archive" >>
        ELSE << >>)
    \o << "Share" >>
    \o << "Delete" >>

\* the entries of the open action menu, top to bottom
detailMenu(cfg, item) ==
    (IF ~Has(cfg, "features") \/ NotFalse(cfg.features, "update") THEN << "Edit" >> ELSE << >>)
    \o (IF Has(cfg, "features") /\ TruthyBool(cfg.features, "archive")
        THEN << IF Has(item, "archived") /\ Truthy(item.archived) THEN "Unarchive" ELSE "Archive" >>
        ELSE << >>)
    \o << "Share" >>
    \o (IF ~Has(cfg, "features") \/ NotFalse(cfg.features, "delete") THEN << "Delete" >> ELSE << >>)

\* handleEditItem: what it asks of the host
handleEditItem(cfg, title, host) ==
    IF host THEN << FollowUp("Edit the " \o toLowerCase(cfg.label) \o " \"" \o title \o "\"") >>
    ELSE << >>

\* mutant of handleDeleteItem: the tool is called without the dialog
handleDeleteItem_NoConfirm(cfg, item, host, confirmed) ==
    IF host
    THEN << CallToolEffect("delete_" \o cfg.domain,
                           [k \in {cfg.domain \o "_id"} |-> item.id]) >>
    ELSE << >>

\* handleDeleteItem: window.confirm is evaluated only with the host API
\* present; confirmed is the user's answer to the dialog
handleDeleteItem(cfg, item, host, confirmed) ==
    IF ~host THEN << >>
    ELSE << Confirm("Are you sure you want to delete this " \o toLowerCase(cfg.label) \o "?",
                    confirmed) >>
         \o (IF confirmed
             THEN << CallToolEffect("delete_" \o cfg.domain,
                                    [k \in {cfg.domain \o "_id"} |-> item.id]) >>
             ELSE << >>)

\* mutant of handleArchiveItem: the action is picked the wrong way round
handleArchiveItem_Inverted(cfg, item, host) ==
    IF host /\ Has(cfg, "features") /\ TruthyBool(cfg.features, "archive")
    THEN LET action == IF Has(item, "archived") /\ Truthy(item.archived)
                       THEN "archive" ELSE "restore"
         IN << CallToolEffect(action \o "_" \o cfg.domain,
                              [k \in {cfg.domain \o "_id"} |-> item.id]) >>
    ELSE << >>

\* handleArchiveItem
handleArchiveItem(cfg, item, host) ==
    IF host /\ Has(cfg, "features") /\ TruthyBool(cfg.features, "archive")
    THEN LET action == IF Has(item, "archived") /\ Truthy(item.archived)
                       THEN "restore" ELSE "archive"
         IN << CallToolEffect(action \o "_" \o cfg.domain,
                              [k \in {cfg.domain \o "_id"} |-> item.id]) >>
    ELSE << >>

\* handleShare; canShare is whether the browser has navigator.share
handleShare(cfg, title, description, host, canShare) ==
    IF canShare THEN << ShareEffect(title, description) >>
    ELSE IF host
    THEN << FollowUp("Help me share this " \o toLowerCase(cfg.label) \o ": \"" \o title \o "\"") >>
    ELSE << >>

\* a click on an entry of the open menu runs its handler: the menu closes
\* and the handler's requests go to the host
MenuClick(entry, effects) ==
    /\ DetailMounted
    /\ showMenu
    /\ Includes(detailMenu(detailView.config, detailView.item), entry)
    /\ showMenu' = FALSE
    /\ hostEffects' = effects
    /\ lastOp' = "detail." \o entry
    /\ UNCHANGED <<env, files, config, result, console, lastPath, server, toolConfig,
                   toolCall, apiRequest, apiResponse, toolResult, detailView, detailState,
                   listView, listState, openai>>

ClickEdit == MenuClick("Edit", handleEditItem(detailView.config, detailView.title.text, openai))

ClickArchive ==
    \E entry \in {"Archive", "Unarchive"} :
        MenuClick(entry, handleArchiveItem(detailView.config, detailView.item, openai))

ClickShare(canShare) ==
    MenuClick("Share",
              handleShare(detailView.config, detailView.title.text,
                          IF detailView.description = << >> THEN ""
                          ELSE detailView.description[1].text,
                          openai, canShare))

ClickDelete(confirmed) ==
    MenuClick("Delete", handleDeleteItem(detailView.config, detailView.item, openai, confirmed))

\* ------------------------------------------------------------ list widget
\* String.prototype.localeCompare on the strings of the model, by their
\* place in the collation order: -1, 0 or 1
Collation ==
    << "1", "2", "2024-01-01T00:00:00.000Z", "2024-02-01T00:00:00.000Z",
       "2024-03-01T00:00:00.000Z", "false", "true" >>
localeCompare(a, b) ==
    LET PlaceOf(text) == CHOOSE i \in DOMAIN Collation : Collation[i] = text
    IN IF PlaceOf(a) < PlaceOf(b) THEN 0 - 1 ELSE IF PlaceOf(a) > PlaceOf(b) THEN 1 ELSE 0

\* entity[sortBy]
SortKey(entity, sortBy) == IF Has(entity, sortBy) THEN entity[sortBy] ELSE Undefined

\* mutant of compareEntities: a missing key sorts by the order's direction
compareEntities_NullsByDirection(a, b, sortBy, sortOrder) ==
    LET aVal == SortKey(a, sortBy)
        bVal == SortKey(b, sortBy)
        comparison == IF aVal = JsNull \/ aVal = Undefined THEN 1
                      ELSE IF bVal = JsNull \/ bVal = Undefined THEN 0 - 1
                      ELSE IF aVal.t = "number" /\ bVal.t = "number" THEN aVal.v - bVal.v
                      ELSE localeCompare(ToText(aVal), ToText(bVal))
    IN IF sortOrder = "desc" THEN 0 - comparison ELSE comparison

\* the comparator sortEntities hands to Array.prototype.sort
compareEntities(a, b, sortBy, sortOrder) ==
    LET aVal == SortKey(a, sortBy)
        bVal == SortKey(b, sortBy)
    IN IF aVal = JsNull \/ aVal = Undefined THEN 1
       ELSE IF bVal = JsNull \/ bVal = Undefined THEN 0 - 1
       ELSE LET comparison == IF aVal.t = "number" /\ bVal.t = "number"
                              THEN aVal.v - bVal.v
                              ELSE localeCompare(ToText(aVal), ToText(bVal))
            IN IF sortOrder = "desc" THEN 0 - comparison ELSE comparison

\* one step of the insertion sort the engine runs on short arrays: x moves
\* left past every element it compares below
RECURSIVE InsertSorted(_, _, _, _)
InsertSorted(sorted, x, sortBy, sortOrder) ==
    IF sorted = << >> THEN << x >>
    ELSE IF compareEntities(x, sorted[Len(sorted)], sortBy, sortOrder) < 0
    THEN InsertSorted(SubSeq(sorted, 1, Len(sorted) - 1), x, sortBy, sortOrder)
         \o << sorted[Len(sorted)] >>
    ELSE sorted \o << x >>

\* [...entities].sort(comparator): a sorted copy, the argument is not touched
RECURSIVE sortEntities(_, _, _)
sortEntities(entities, sortBy, sortOrder) ==
    IF entities = << >> THEN << >>
    ELSE InsertSorted(sortEntities(SubSeq(entities, 1, Len(entities) - 1), sortBy, sortOrder),
                      entities[Len(entities)], sortBy, sortOrder)

\* GenericListApp: the items and config the list widget works on
GenericListApp(toolOutput, metadata) ==
    [ items |-> IF Has(toolOutput, "items") THEN toolOutput.items ELSE << >>,
      config |-> IF Has(metadata, "config") THEN metadata.config ELSE Null ]

\* sortedItems: the cards on screen, top to bottom
sortedItems(view, state) ==
    sortEntities(view.items,
                 IF Has(state, "sortBy") THEN state.sortBy ELSE "created_date",
                 IF Has(state, "sortOrder") THEN state.sortOrder ELSE "desc")

\* the host renders the list widget, the output template of the list tool
RenderList ==
    /\ toolResult # Null
    /\ listView = Null
    /\ toolResult.kind = "result"
    /\ toolCall.op = "list"
    /\ listView' = GenericListApp(toolResult.structuredContent, toolResult.meta)
    /\ listState' = ListInitialState
    /\ hostEffects' = << >>
    /\ lastOp' = "render"
    /\ UNCHANGED <<env, files, config, result, console, lastPath, server, toolConfig,
                   toolCall, apiRequest, apiResponse, toolResult, detailView, detailState,
                   showMenu, openai>>

\* what a list widget handler leaves alone
ListFrame ==
    UNCHANGED <<env, files, config, result, console, lastPath, server, toolConfig,
                toolCall, apiRequest, apiResponse, toolResult, detailView, detailState,
                showMenu, listView, openai>>

\* handleToggleFavorite of the list widget, from a card's heart button
ListToggleFavorite(itemId) ==
    /\ listView # Null
    /\ \E i \in DOMAIN listView.items : listView.items[i].id = itemId
    /\ listState' = toggleFavorite(listState, itemId)
    /\ hostEffects' = << >>
    /\ lastOp' = "list.favorite:" \o itemId.v
    /\ ListFrame

\* the name handleItemClick puts into its prompt
ItemName(view, itemId) ==
    LET item == Find(SelectSeq(view.items, LAMBDA i : i.id = itemId))
        mainField == Find(SelectSeq(view.config.fields, LAMBDA f : TruthyBool(f, "showInList")))
    IN IF mainField = << >> THEN ToText(itemId)
       ELSE ToText(getFieldValue(item[1], mainField[1]))

\* mutant of clickState: the item is selected, the view mode stays
clickState_KeepMode(state, itemId) == Spread(state, [selectedItem |-> itemId])

\* the widget state handleItemClick sets
clickState(state, itemId) == Spread(state, [selectedItem |-> itemId, viewMode |-> "detail"])

\* handleItemClick, from a click on a card
HandleItemClick(itemId) ==
    /\ listView # Null
    /\ \E i \in DOMAIN listView.items : listView.items[i].id = itemId
    /\ listState' = clickState(listState, itemId)
    /\ hostEffects' = IF openai
                      THEN << FollowUp("Show me the details for " \o listView.config.label
                                       \o " \"" \o ItemName(listView, itemId) \o "\"") >>
                      ELSE << >>
    /\ lastOp' = "list.click:" \o itemId.v
    /\ ListFrame

\* the fields of the sort buttons
SortFields == {"created_date", "updated_date", "priority"}

\* mutant of sortState: every selection sorts descending
sortState_AlwaysDesc(state, sortField) ==
    Spread(state, [sortBy |-> sortField, sortOrder |-> "desc"])

\* the widget state handleSort sets
sortState(state, sortField) ==
    LET newSortOrder == IF Has(state, "sortBy") /\ state.sortBy = sortField
                           /\ Has(state, "sortOrder") /\ state.sortOrder = "desc"
                        THEN "asc" ELSE "desc"
    IN Spread(state, [sortBy |-> sortField, sortOrder |-> newSortOrder])

\* handleSort, from a sort button
HandleSort(sortField) ==
    /\ listView # Null
    /\ sortField \in SortFields
    /\ listState' = sortState(listState, sortField)
    /\ hostEffects' = << >>
    /\ lastOp' = "list.sort:" \o sortField
    /\ ListFrame

\* handleAddItem
HandleAddItem ==
    /\ listView # Null
    /\ hostEffects' = IF openai
                      THEN << FollowUp("I want to add a new " \o listView.config.label) >>
                      ELSE << >>
    /\ lastOp' = "list.add"
    /\ UNCHANGED listState
    /\ ListFrame

\* ------------------------------------------------------------ application
\* fields as the widgets tell them apart: type, hidden, showInList,
\* showInDetail, a priority key
WidgetSlice ==
    { Spread(MkField("name", "string"), [showInList |-> TRUE, showInDetail |-> TRUE]),
      Spread(MkField("name", "string"), [hidden |-> TRUE, showInList |-> TRUE]),
      MkField("notes", "text"),
      With(MkField("notes", "text"), "hidden", TRUE),
      With(MkField("Urgency", "number"), "showInList", FALSE),
      Spread(MkField("price", "number"), [showInDetail |-> FALSE, hidden |-> FALSE]) }

\* the descriptors of a running application: every tool set, and the fields
\* the widgets render
AppConfigs ==
    {BaseConfig, AltConfig}
    \cup {With(BaseConfig, "features", f) :
            f \in {[archive |-> TRUE], [create |-> FALSE, update |-> FALSE],
                   [delete |-> FALSE, archive |-> FALSE]}}
    \cup {[BaseConfig EXCEPT !.fields = s] : s \in SeqUpTo(WidgetSlice, MaxFields)}

\* the server process at startup: DOMAIN_CONFIG_PATH names the descriptor
AppInit ==
    /\ env = CfgPath
    /\ files \in {[p \in {Resolve(CfgPath), Resolve(AltPath)} |->
                     IF p = Resolve(CfgPath) THEN c ELSE AltConfig] : c \in AppConfigs}
    /\ config = Null
    /\ result = Null
    /\ console = {}
    /\ lastOp = "none"
    /\ lastPath = ""
    /\ server = << >>
    /\ toolConfig = Null
    /\ AppIdle

\* startup (load, register), then tool calls and widget renders
AppNext ==
    \/ (config = Null /\ Load(""))
    \/ RegisterGenericTools
    \/ \E i \in DOMAIN server : \E payload \in Payloads(server[i].op) : CallTool(i, payload)
    \/ (toolCall # Null /\ \E resp \in Responses(toolCall.op), now \in Clock : Respond(resp, now))
    \/ RenderDetail

SpecApp == AppInit /\ [][AppNext]_vars

\* ------------------------------------------------------------ widgets
\* the descriptors the widgets run under: every action menu, two domains,
\* and fields that name a card
WidgetConfigs ==
    {BaseConfig, AltConfig}
    \cup {With(BaseConfig, "features", f) :
            f \in {[archive |-> TRUE], [create |-> FALSE, update |-> FALSE],
                   [delete |-> FALSE, archive |-> FALSE]}}
    \cup {[BaseConfig EXCEPT !.fields =
              << With(MkField("Urgency", "number"), "showInList", TRUE),
                 With(MkField("name", "string"), "hidden", TRUE) >>]}

\* the server process at startup, and the browser with or without the host
\* API
WidgetInit ==
    /\ env = CfgPath
    /\ files \in {[p \in {Resolve(CfgPath), Resolve(AltPath)} |->
                     IF p = Resolve(CfgPath) THEN c ELSE AltConfig] : c \in WidgetConfigs}
    /\ config = Null
    /\ result = Null
    /\ console = {}
    /\ lastOp = "none"
    /\ lastPath = ""
    /\ server = << >>
    /\ toolConfig = Null
    /\ toolCall = Null
    /\ apiRequest = Null
    /\ apiResponse = Null
    /\ toolResult = Null
    /\ WidgetIdle
    /\ openai \in BOOLEAN

\* the calls that bring a widget on screen, and the answers that do: an
\* item, or a list that holds no id twice
WidgetPayloads(op) ==
    CASE op = "list" -> {EmptyObj}
      [] op = "get" -> IdPayloads
      [] OTHER -> {}
WidgetResponses(op) ==
    {r \in Responses(op) :
        /\ Ok(r)
        /\ r.body.json
        /\ op = "list" => \A i, j \in DOMAIN r.body.value :
                             r.body.value[i].id = r.body.value[j].id => i = j}

\* startup, the calls that mount a widget, and the user's actions in the
\* mounted widget
WidgetNext ==
    \/ (config = Null /\ Load(""))
    \/ RegisterGenericTools
    \/ \E i \in DOMAIN server : \E payload \in WidgetPayloads(server[i].op) : CallTool(i, payload)
    \/ (toolCall # Null /\ \E resp \in WidgetResponses(toolCall.op), now \in Clock : Respond(resp, now))
    \/ RenderDetail
    \/ DetailToggleFavorite
    \/ HandleBackToList
    \/ ToggleMenu
    \/ ClickEdit
    \/ ClickArchive
    \/ \E canShare \in BOOLEAN : ClickShare(canShare)
    \/ \E confirmed \in BOOLEAN : ClickDelete(confirmed)
    \/ RenderList
    \/ \E itemId \in {Str(id) : id \in ItemIds} : ListToggleFavorite(itemId)
    \/ \E itemId \in {Str(id) : id \in ItemIds} : HandleItemClick(itemId)
    \/ \E sortField \in SortFields : HandleSort(sortField)
    \/ HandleAddItem

SpecWidget == WidgetInit /\ [][WidgetNext]_vars

\* ================================================================== claims
\* helpers that state the claims in their own words, not the code's

\* the indices of the registered tools of operation op
ToolsOf(op) == {i \in DOMAIN server : server[i].op = op}
ToolNames == {server[i].name : i \in DOMAIN server}

\* a feature flag that is present and false
ExplicitlyFalse(cfg, flag) ==
    /\ "features" \in DOMAIN cfg
    /\ flag \in DOMAIN cfg.features
    /\ cfg.features[flag] = FALSE

\* a feature flag that is present and true
ExplicitlyTrue(cfg, flag) ==
    /\ "features" \in DOMAIN cfg
    /\ flag \in DOMAIN cfg.features
    /\ cfg.features[flag] = TRUE

ExpectedToolNames(cfg) ==
    {"list_" \o cfg.domain, "get_" \o cfg.domain}
    \cup (IF ExplicitlyFalse(cfg, "create") THEN {} ELSE {"create_" \o cfg.domain})
    \cup (IF ExplicitlyFalse(cfg, "update") THEN {} ELSE {"update_" \o cfg.domain})
    \cup (IF ExplicitlyFalse(cfg, "delete") THEN {} ELSE {"delete_" \o cfg.domain})
    \cup (IF ExplicitlyTrue(cfg, "archive")
          THEN {"archive_" \o cfg.domain, "restore_" \o cfg.domain} ELSE {})

\* C1: after registerGenericTools the registered tool names are exactly
\* list_D and get_D, create_D / update_D / delete_D unless the flag is
\* explicitly false, archive_D and restore_D (both or neither) only when
\* features.archive is true; the search flag adds nothing and no name is
\* registered twice.  Before registration the server holds no tool.
C1_RegisteredToolSet ==
    /\ toolConfig = Null => server = << >>
    /\ toolConfig # Null =>
        /\ ToolNames = ExpectedToolNames(toolConfig)
        /\ \A i, j \in DOMAIN server : server[i].name = server[j].name => i = j
        /\ ("archive_" \o toolConfig.domain \in ToolNames)
              <=> ("restore_" \o toolConfig.domain \in ToolNames)

\* C1 witness: tools registered for a config with create disabled, archive
\* and search enabled, update and delete left to their defaults
C1_Witness ==
    /\ toolConfig # Null
    /\ "features" \in DOMAIN toolConfig
    /\ toolConfig.features = [create |-> FALSE, archive |-> TRUE, search |-> TRUE]
    /\ Len(server) = 6

\* the descriptor file a load with argument configPath reads, when there is
\* one that parses as a JSON object
ReadsDescriptor(configPath) ==
    LET path == IF configPath = "" THEN env ELSE configPath
    IN  /\ path # ""
        /\ Resolve(path) \in DOMAIN files
        /\ files[Resolve(path)] \in Descriptors
DescriptorRead(configPath) ==
    files[Resolve(IF configPath = "" THEN env ELSE configPath)]

LacksRequiredKey(d) == \E k \in RequiredKeys : k \notin DOMAIN d

\* C2: once a config is cached, every call other than reload leaves it
\* cached, and load (with any path argument) and get return it
C2_FirstLoadWins ==
    [][ (config # Null /\ lastOp' # "reload") =>
            /\ config' = config
            /\ (lastOp' \in {"load", "get"} => result' = config) ]_vars

\* C2 witness: a load naming the other, valid, descriptor file has returned
\* the config cached by the first load
C2_Witness ==
    /\ lastOp = "load"
    /\ lastPath = AltPath
    /\ config # Null
    /\ config # AltConfig
    /\ result = config

\* C3: a load of a descriptor that lacks domain, label, labelPlural or fields
\* produces no config from it: the cached config is left as it was (and is
\* what the call returns: null when nothing was cached), and no cached config
\* ever lacks a required key
C3_MissingKeyRejected ==
    /\ [](config # Null => ~LacksRequiredKey(config))
    /\ [][ (lastOp' = "load" /\ ReadsDescriptor(lastPath')
              /\ LacksRequiredKey(DescriptorRead(lastPath'))) =>
                /\ config' = config
                /\ result' = config
                /\ (config = Null => result' = Null) ]_vars

\* C3 witness: a load of a descriptor without a fields key has returned null
\* and cached nothing
C3_Witness ==
    /\ lastOp = "load"
    /\ ReadsDescriptor(lastPath)
    /\ "fields" \notin DOMAIN DescriptorRead(lastPath)
    /\ "failed" \in console
    /\ result = Null
    /\ config = Null

UniqueKeys(fields) ==
    \A i, j \in DOMAIN fields : fields[i].key = fields[j].key => i = j

\* C4 (as claimed): no config with two fields of the same key is cached or
\* handed to registerGenericTools
C4_NoDuplicateKeys ==
    /\ config # Null => UniqueKeys(config.fields)
    /\ toolConfig # Null => UniqueKeys(toolConfig.fields)

\* the contract accepts every value offered for key k
AcceptsAnything(shape, k) == \A v \in Values : AcceptsValue(shape[k], v)

\* C5 (as claimed): no cached config has a field whose type is outside the
\* six type tokens, and no registered input contract has a key that accepts
\* arbitrary values
C5_NoUnknownType ==
    /\ config # Null => \A i \in DOMAIN config.fields : config.fields[i].type \in FieldTypes
    /\ \A t \in DOMAIN server : \A k \in DOMAIN server[t].inputSchema :
            ~AcceptsAnything(server[t].inputSchema, k)

\* the four ways a load fails
LoadMustFail(configPath) ==
    LET path == IF configPath = "" THEN env ELSE configPath
    IN  \/ path = ""
        \/ Resolve(path) \notin DOMAIN files
        \/ files[Resolve(path)] = Garbage
        \/ /\ files[Resolve(path)] \in Descriptors
           /\ LacksRequiredKey(files[Resolve(path)])

\* a descriptor with the four required keys, the names non-empty
ValidDescriptor(d) ==
    /\ d \in Descriptors
    /\ RequiredKeys \subseteq DOMAIN d
    /\ d.domain # "" /\ d.label # "" /\ d.labelPlural # ""

\* C6: a load that returns null caches nothing, each of the four failures
\* makes a load with nothing cached return null, and with nothing cached
\* (so also after failed loads) a load of a valid descriptor returns it and
\* caches it
C6_FailedLoadCachesNothing ==
    [][ lastOp' = "load" =>
          /\ (result' = Null => config' = Null)
          /\ (config = Null /\ LoadMustFail(lastPath')) =>
                (result' = Null /\ config' = Null)
          /\ (config = Null /\ ReadsDescriptor(lastPath')
                /\ ValidDescriptor(DescriptorRead(lastPath'))) =>
                (result' = DescriptorRead(lastPath') /\ config' = result') ]_vars

\* C6 witness: loads have failed for a missing file and for a bad file or
\* descriptor, and the load of the valid descriptor then succeeded
C6_Witness ==
    /\ {"not-found", "failed"} \subseteq console
    /\ lastOp = "load"
    /\ lastPath = AltPath
    /\ result = AltConfig
    /\ config = AltConfig

\* the keys of the fields of a config that are not system fields
UserKeys(cfg) ==
    {cfg.fields[i].key : i \in DOMAIN cfg.fields} \ {"id", "archived", "created_date", "updated_date"}

RequiredSet(field) == "required" \in DOMAIN field /\ field.required = TRUE

\* C7 (as claimed): the create-input contract has exactly the non-system
\* field keys, and the key of a field is mandatory exactly when the field
\* has required set
C7_CreateContract ==
    \A t \in ToolsOf("create") :
        /\ DOMAIN server[t].inputSchema = UserKeys(toolConfig)
        /\ \A i \in DOMAIN toolConfig.fields :
              toolConfig.fields[i].key \in UserKeys(toolConfig) =>
                (Mandatory(server[t].inputSchema, toolConfig.fields[i].key)
                    <=> RequiredSet(toolConfig.fields[i]))

\* C8: the update-input contract has a mandatory id, its other keys are the
\* non-system field keys, none of them mandatory, and the id alone is an
\* accepted input
C8_UpdateContract ==
    \A t \in ToolsOf("update") :
        /\ Mandatory(server[t].inputSchema, "id")
        /\ DOMAIN server[t].inputSchema = {"id"} \cup UserKeys(toolConfig)
        /\ \A k \in UserKeys(toolConfig) : ~Mandatory(server[t].inputSchema, k)
        /\ AcceptsObject(server[t].inputSchema, [id |-> Str("x")])

\* C8 witness: an update tool registered for a config with a required field
C8_Witness ==
    /\ ToolsOf("update") # {}
    /\ \E i \in DOMAIN toolConfig.fields :
          /\ RequiredSet(toolConfig.fields[i])
          /\ toolConfig.fields[i].key \in UserKeys(toolConfig)

\* the entity contract of an output contract
EntityOf(output) ==
    IF "item" \in DOMAIN output THEN output.item.shape ELSE output.items.element.shape

Effective(cfg, i) ==
    /\ cfg.fields[i].key \in UserKeys(cfg)
    /\ \A j \in DOMAIN cfg.fields : cfg.fields[j].key = cfg.fields[i].key => j <= i

\* C10: the create-input entry of a number field accepts a number v exactly
\* when v is at least the declared min and at most the declared max (an
\* undeclared bound does not limit); the entry of a field of another type
\* carries no bound: it accepts every number or none
C10_NumberRange ==
    \A t \in ToolsOf("create") : \A i \in DOMAIN toolConfig.fields :
        Effective(toolConfig, i) =>
            LET field == toolConfig.fields[i]
                entry == server[t].inputSchema[field.key]
            IN  IF field.type = "number"
                THEN \A n \in Numbers :
                        AcceptsValue(entry, Num(n)) <=>
                            /\ ("min" \in DOMAIN field => field.min <= n)
                            /\ ("max" \in DOMAIN field => n <= field.max)
                ELSE \/ \A n \in Numbers : AcceptsValue(entry, Num(n))
                     \/ \A n \in Numbers : ~AcceptsValue(entry, Num(n))

\* C10 witness: a create contract built from a number field that declares
\* a min above 0 and a larger max
C10_Witness ==
    /\ ToolsOf("create") # {}
    /\ \E i \in DOMAIN toolConfig.fields :
          /\ Effective(toolConfig, i)
          /\ toolConfig.fields[i].type = "number"
          /\ {"min", "max"} \subseteq DOMAIN toolConfig.fields[i]
          /\ toolConfig.fields[i].min < toolConfig.fields[i].max
          /\ toolConfig.fields[i].min > 0

\* C11: in the update-input contract the entry of a number field accepts a
\* number exactly when it lies in the declared [min, max], as the create
\* entry of the same field does, and accepts the field being omitted
C11_UpdateRangeChecked ==
    \A t \in ToolsOf("update") : \A i \in DOMAIN toolConfig.fields :
        (Effective(toolConfig, i) /\ toolConfig.fields[i].type = "number") =>
            LET field == toolConfig.fields[i]
                entry == server[t].inputSchema[field.key]
            IN  /\ \A n \in Numbers :
                        AcceptsValue(entry, Num(n)) <=>
                            /\ ("min" \in DOMAIN field => field.min <= n)
                            /\ ("max" \in DOMAIN field => n <= field.max)
                /\ AcceptsValue(entry, Undefined)
                /\ \A c \in ToolsOf("create") : \A n \in Numbers :
                        AcceptsValue(server[c].inputSchema[field.key], Num(n))
                            <=> AcceptsValue(entry, Num(n))

\* C11 witness: create and update are registered for a config whose required
\* number field declares a min above 0 and a larger max
C11_Witness ==
    /\ ToolsOf("update") # {} /\ ToolsOf("create") # {}
    /\ \E i \in DOMAIN toolConfig.fields :
          /\ Effective(toolConfig, i)
          /\ toolConfig.fields[i].type = "number"
          /\ RequiredSet(toolConfig.fields[i])
          /\ {"min", "max"} \subseteq DOMAIN toolConfig.fields[i]
          /\ 0 < toolConfig.fields[i].min
          /\ toolConfig.fields[i].min < toolConfig.fields[i].max

\* C14 (as claimed): in the create-input contract a required field that
\* declares a default is not mandatory, and a mandatory key belongs to a
\* required field without a default
C14_DefaultMakesOptional ==
    \A t \in ToolsOf("create") : \A i \in DOMAIN toolConfig.fields :
        Effective(toolConfig, i) =>
            LET field == toolConfig.fields[i]
            IN  /\ (RequiredSet(field) /\ "default" \in DOMAIN field) =>
                     ~Mandatory(server[t].inputSchema, field.key)
                /\ Mandatory(server[t].inputSchema, field.key) =>
                     (RequiredSet(field) /\ "default" \notin DOMAIN field)

\* the keys of a sequence of fields
KeysOf(fields) == {fields[i].key : i \in DOMAIN fields}

\* a config that the missing load checks of C4 and C5 do not concern: unique
\* field keys, known type tokens, no reserved key
WellFormedFields(cfg) ==
    /\ UniqueKeys(cfg.fields)
    /\ \A i \in DOMAIN cfg.fields :
          /\ cfg.fields[i].type \in FieldTypes
          /\ cfg.fields[i].key \notin {"id", "archived", "created_date", "updated_date"}

\* C15 (as claimed, for configs with unique field keys, known type tokens and
\* no reserved key): the keys that are mandatory in the create-input contract
\* are the keys of the fields getRequiredFields returns for the same config,
\* so a hidden required field is not mandatory
C15_RequiredRuleShared ==
    \A t \in ToolsOf("create") :
        (config = toolConfig /\ WellFormedFields(config)) =>
            {k \in DOMAIN server[t].inputSchema : Mandatory(server[t].inputSchema, k)}
                = KeysOf(getRequiredFields(config))

\* C16 (as claimed): the contract entry of a date or datetime field rejects
\* a string that is no date
C16_DateParsed ==
    \A t \in ToolsOf("create") : \A i \in DOMAIN toolConfig.fields :
        (Effective(toolConfig, i) /\ toolConfig.fields[i].type \in {"date", "datetime"}) =>
            ~AcceptsValue(server[t].inputSchema[toolConfig.fields[i].key], Str("x"))

\* C19 (as claimed): a reload that returns null leaves the cached config as
\* it was
C19_ReloadAllOrNothing ==
    [][ (lastOp' = "reload" /\ result' = Null) => config' = config ]_vars

\* ---------------------------------------------------------------- C12
\* a handler has returned a result for the last call
Succeeded == toolResult # Null /\ toolResult.kind = "result"
\* the last call's handler threw
Failed == toolResult # Null /\ toolResult.kind = "error"

\* C12: every successful response of every registered tool carries the
\* active domain config in its metadata.
C12_ConfigInMetadata ==
    Succeeded => (Has(toolResult.meta, "config") /\ toolResult.meta.config = config)

\* ---------------------------------------------------------------- C13
\* C13: every successful list response is {items, count}: items is exactly
\* the sequence the backend returned, count is its length.
C13_ListShape ==
    (Succeeded /\ toolCall.op = "list") =>
        /\ DOMAIN toolResult.structuredContent = {"items", "count"}
        /\ toolResult.structuredContent.items = apiResponse.body.value
        /\ toolResult.structuredContent.count = Len(apiResponse.body.value)

\* a list call answered with two items, the archived one first
C13_Witness ==
    /\ Succeeded
    /\ toolCall.op = "list"
    /\ toolResult.structuredContent.items = << Entity("p2"), Entity("p1") >>
    /\ toolResult.structuredContent.count = 2

\* ---------------------------------------------------------------- C17
StatusTools == {"delete", "archive", "restore"}

\* C17: a tool reports success only after the backend accepted the request:
\* on a non-OK answer the handler fails with an error and returns no result;
\* delete, archive and restore return {success: true, message} only after an
\* OK answer.
C17_SuccessOnlyAfterOk ==
    /\ (toolResult # Null /\ ~Ok(apiResponse)) =>
            (Failed /\ DOMAIN toolResult = {"kind", "error"})
    /\ (Succeeded /\ toolCall.op \in StatusTools) =>
            /\ Ok(apiResponse)
            /\ DOMAIN toolResult.structuredContent = {"success", "message"}
            /\ toolResult.structuredContent.success = TRUE

\* a delete refused by the backend whose body is well-formed JSON
C17_Witness ==
    /\ Failed
    /\ toolCall.op = "delete"
    /\ apiResponse.status = 404
    /\ apiResponse.body.json

\* ---------------------------------------------------------------- C18
\* the text an error may expose: the status code and the status text
StatusLine(resp) == "API request failed: " \o ToString(resp.status) \o " " \o resp.statusText

\* C18: the error raised for a failed backend request exposes only the HTTP
\* status code and status text; the response body is never read into or
\* copied to the error.
C18_ErrorHidesBody ==
    (Failed /\ ~Ok(apiResponse)) =>
        /\ DOMAIN toolResult.error = {"name", "message"}
        /\ toolResult.error.message = StatusLine(apiResponse)
        /\ ~apiResponse.bodyUsed

\* a failed request whose body holds backend internals
C18_Witness ==
    /\ Failed
    /\ apiResponse.status = 500
    /\ apiResponse.body = JsonBody([detail |-> "sqlite3.IntegrityError in store.py"])

\* ---------------------------------------------------------------- C20
\* the fields whose value or label the detail widget has put on screen
ShownFields(view) ==
    {view.title.field[i] : i \in DOMAIN view.title.field}
    \cup UNION {{d.field[i] : i \in DOMAIN d.field} : d \in {view.description[j] : j \in DOMAIN view.description}}
    \cup UNION {{d.field[i] : i \in DOMAIN d.field} : d \in {view.priority[j] : j \in DOMAIN view.priority}}
    \cup UNION {{view.rows[j].field[i] : i \in DOMAIN view.rows[j].field} : j \in DOMAIN view.rows}

\* C20: a field with hidden set is never shown by the widgets:
\* getFieldsForView returns no hidden field for the list or the detail view,
\* and the detail widget renders no hidden field's value (not as a Details
\* row, nor as title, description or priority badge). The item's id is on
\* screen as the fallback title in any case, so the fields under the system
\* keys are set aside.
C20_HiddenNeverShown ==
    /\ toolConfig # Null =>
          \A view \in {"list", "detail"} :
             \A i \in DOMAIN getFieldsForView(toolConfig, view) :
                ~TruthyBool(getFieldsForView(toolConfig, view)[i], "hidden")
    /\ (detailView # Null /\ detailView.screen = "detail") =>
          \A f \in ShownFields(detailView) :
             f.key \notin systemFields => ~TruthyBool(f, "hidden")

\* ---------------------------------------------------------------- C25
\* the value an input flag counts as: true only when it was sent as true
SentTrue(input, k) == Has(input, k) /\ input[k] = Bool(TRUE)

\* the url of a list request that carries exactly the given flags
ListUrl(domain, withIncludeArchived, withArchivedOnly) ==
    IDEATE_API_BASE \o "/" \o domain
    \o CASE withIncludeArchived /\ withArchivedOnly -> "?includeArchived=true&archivedOnly=true"
         [] withIncludeArchived /\ ~withArchivedOnly -> "?includeArchived=true"
         [] ~withIncludeArchived /\ withArchivedOnly -> "?archivedOnly=true"
         [] OTHER -> ""

\* C25: the list tool forwards exactly the flags that are true (omitted
\* inputs count as false), the filters reported in the metadata equal the
\* flags applied, and archivedOnly = true is always reported together with
\* includeArchived = true.
C25_ListFilters ==
    (Succeeded /\ toolCall.op = "list") =>
        /\ apiRequest.url = ListUrl(toolConfig.domain,
                                    SentTrue(toolCall.input, "includeArchived"),
                                    SentTrue(toolCall.input, "archivedOnly"))
        /\ toolResult.meta.filters.includeArchived = Bool(SentTrue(toolCall.input, "includeArchived"))
        /\ toolResult.meta.filters.archivedOnly = Bool(SentTrue(toolCall.input, "archivedOnly"))
        /\ (toolResult.meta.filters.archivedOnly = Bool(TRUE)
                => toolResult.meta.filters.includeArchived = Bool(TRUE))

\* ---------------------------------------------------------------- C30
\* a visibility flag that is present and true / present and false
FlagTrue(f, k) == Has(f, k) /\ f[k] = TRUE
FlagFalse(f, k) == Has(f, k) /\ f[k] = FALSE

\* C30: for every loaded config, getListFields equals
\* getFieldsForView(config, 'list') and getDetailFields equals
\* getFieldsForView(config, 'detail'), as the same fields in config order:
\* list is showInList true and not hidden, detail is showInDetail not false
\* and not hidden.
C30_ProjectionsAgree ==
    config # Null =>
        /\ getListFields(config) = getFieldsForView(config, "list")
        /\ getDetailFields(config) = getFieldsForView(config, "detail")
        /\ getListFields(config) =
              SelectSeq(config.fields, LAMBDA f : FlagTrue(f, "showInList") /\ ~FlagTrue(f, "hidden"))
        /\ getDetailFields(config) =
              SelectSeq(config.fields, LAMBDA f : ~FlagFalse(f, "showInDetail") /\ ~FlagTrue(f, "hidden"))

\* a loaded config with a hidden field flagged for the list ahead of a
\* visible one: both projections hold the visible field only
C30_Witness ==
    /\ config # Null
    /\ Len(config.fields) = 2
    /\ FlagTrue(config.fields[1], "hidden") /\ FlagTrue(config.fields[1], "showInList")
    /\ FlagTrue(config.fields[2], "showInList")
    /\ getListFields(config) = << config.fields[2] >>
    /\ getDetailFields(config) = << config.fields[2] >>

\* ---------------------------------------------------------------- C21
\* the tool calls the last widget handler issued
WidgetCalls == {hostEffects[i] : i \in {j \in DOMAIN hostEffects : hostEffects[j].type = "callTool"}}

\* the input contracts registered under a tool name
ContractsOf(name) == {server[i].inputSchema : i \in {j \in DOMAIN server : server[j].name = name}}

\* C21: every tool call the detail widget issues satisfies the input
\* contract registered for that tool name for the same config: its
\* arguments contain the mandatory id key holding the displayed item's id.
C21_WidgetCallsFitContract ==
    (DetailMounted /\ detailView.config = toolConfig) =>
        \A call \in WidgetCalls :
            /\ \A shape \in ContractsOf(call.name) : AcceptsObject(shape, call.args)
            /\ Has(call.args, "id")
            /\ call.args.id = detailView.item.id

\* ---------------------------------------------------------------- C22
\* C22: the detail widget offers an action exactly when the matching tool
\* is registered for the config: Edit iff update_D, Delete iff delete_D,
\* Archive/Unarchive iff archive_D and restore_D; the widget never calls a
\* tool that is not registered.
C22_MenuMatchesTools ==
    (DetailMounted /\ detailView.config = toolConfig) =>
        LET menu == detailMenu(detailView.config, detailView.item)
            D == toolConfig.domain
        IN /\ Includes(menu, "Edit") <=> ("update_" \o D) \in ToolNames
           /\ Includes(menu, "Delete") <=> ("delete_" \o D) \in ToolNames
           /\ (Includes(menu, "Archive") \/ Includes(menu, "Unarchive"))
                 <=> ({"archive_" \o D, "restore_" \o D} \subseteq ToolNames)
           /\ (Includes(menu, "Archive") \/ Includes(menu, "Unarchive"))
                 <=> ({"archive_" \o D, "restore_" \o D} \cap ToolNames # {})
           /\ \A call \in WidgetCalls : call.name \in ToolNames

\* the archive entry was clicked under a config without the delete tool
C22_Witness ==
    /\ DetailMounted
    /\ ExplicitlyFalse(toolConfig, "delete")
    /\ detailMenu(detailView.config, detailView.item) = << "Edit", "Archive", "Share" >>
    /\ lastOp = "detail.Archive"
    /\ WidgetCalls # {}

\* ---------------------------------------------------------------- C23
\* item.archived is true
IsArchived(item) == Has(item, "archived") /\ item.archived = Bool(TRUE)

\* the tool the archive action must call for the item
ArchiveToolFor(cfg, item) == (IF IsArchived(item) THEN "restore_" ELSE "archive_") \o cfg.domain

\* C23: the archive action issues at most one tool call and picks it from
\* the item's state: restore_D when item.archived is true, archive_D
\* otherwise; with the archive feature not enabled it issues no call.
C23_ArchiveAction ==
    DetailMounted =>
        /\ \A host \in BOOLEAN :
              LET out == handleArchiveItem(detailView.config, detailView.item, host)
              IN /\ Len(out) <= 1
                 /\ \A i \in DOMAIN out :
                       /\ out[i].type = "callTool"
                       /\ out[i].name = ArchiveToolFor(detailView.config, detailView.item)
                 /\ ~ExplicitlyTrue(detailView.config, "archive") => out = << >>
                 /\ (host /\ ExplicitlyTrue(detailView.config, "archive")) => Len(out) = 1
        /\ lastOp \in {"detail.Archive", "detail.Unarchive"} =>
              /\ Len(hostEffects) <= 1
              /\ \A call \in WidgetCalls :
                    call.name = ArchiveToolFor(detailView.config, detailView.item)
              /\ openai => Cardinality(WidgetCalls) = 1

\* Unarchive was clicked on an archived item
C23_Witness ==
    /\ DetailMounted
    /\ lastOp = "detail.Unarchive"
    /\ IsArchived(detailView.item)
    /\ \E call \in WidgetCalls : call.name = "restore_" \o detailView.config.domain

\* ---------------------------------------------------------------- C24
\* the dialog was shown and answered yes / no
Answered(effects, answer) ==
    \E i \in DOMAIN effects : effects[i].type = "confirm" /\ effects[i].answer = answer
CallsIn(effects) == {i \in DOMAIN effects : effects[i].type = "callTool"}

\* C24: the detail widget calls delete_D only after the user confirmed the
\* dialog; where the dialog is declined or the host API is absent, no
\* delete call is issued and the widget state is unchanged except that the
\* menu is closed.
C24_DeleteNeedsConfirm ==
    [][ lastOp' = "detail.Delete" =>
          /\ \A i \in CallsIn(hostEffects') :
                /\ hostEffects'[i].name = "delete_" \o detailView.config.domain
                /\ openai
                /\ \E j \in 1..(i - 1) :
                      hostEffects'[j].type = "confirm" /\ hostEffects'[j].answer = TRUE
          /\ (~openai \/ Answered(hostEffects', FALSE)) =>
                /\ CallsIn(hostEffects') = {}
                /\ ~showMenu'
                /\ detailState' = detailState
                /\ detailView' = detailView
                /\ listState' = listState
                /\ listView' = listView ]_vars

\* Delete was clicked and the dialog declined
C24_Witness ==
    /\ lastOp = "detail.Delete"
    /\ Answered(hostEffects, FALSE)
    /\ WidgetCalls = {}
    /\ ~showMenu

\* ---------------------------------------------------------------- C26
\* the widget-state keys handleSort must leave alone
KeepsKey(old, new, k) == (Has(old, k) <=> Has(new, k)) /\ (Has(old, k) => new[k] = old[k])

\* C26: after a handleSort call sortBy is the field of the call and
\* sortOrder is asc or desc: a field other than the current sortBy yields
\* desc, the current sortBy flips the order; favorites, viewMode and
\* selectedItem are unchanged.
C26_SortToggle ==
    [][ \A field \in SortFields :
          lastOp' = "list.sort:" \o field =>
             /\ listState'.sortBy = field
             /\ listState'.sortOrder \in {"asc", "desc"}
             /\ listState.sortBy # field => listState'.sortOrder = "desc"
             /\ listState.sortBy = field => listState'.sortOrder # listState.sortOrder
             /\ \A k \in {"favorites", "viewMode", "selectedItem"} :
                   KeepsKey(listState, listState', k) ]_vars

\* the current sort field was selected a second time, with a favorite and a
\* selected item in the state
C26_Witness ==
    /\ lastOp = "list.sort:priority"
    /\ listState.sortOrder = "asc"
    /\ listState.favorites # << >>
    /\ Has(listState, "selectedItem")

\* ---------------------------------------------------------------- C27
IsFavorite(state, id) == \E i \in DOMAIN state.favorites : state.favorites[i] = id
NoDuplicates(seq) == \A i, j \in DOMAIN seq : seq[i] = seq[j] => i = j
AllIds == {Str(id) : id \in ItemIds}

\* a toggle of id took the widget state from old to new
Toggled(old, new, id) ==
    /\ IsFavorite(new, id) <=> ~IsFavorite(old, id)
    /\ \A other \in AllIds \ {id} : IsFavorite(new, other) <=> IsFavorite(old, other)
    /\ \A k \in {"sortBy", "sortOrder", "viewMode", "selectedItem"} : KeepsKey(old, new, k)
    /\ NoDuplicates(new.favorites)
    /\ IsFavorite(toggleFavorite(new, id), id) <=> IsFavorite(old, id)
    /\ \A other \in AllIds \ {id} :
          IsFavorite(toggleFavorite(new, id), other) <=> IsFavorite(old, other)

\* C27: toggling a favorite (list or detail widget) flips the membership of
\* exactly that id and leaves every other id's membership and every other
\* widget-state key unchanged; toggling the same id twice restores the
\* membership; starting from the empty list favorites never holds an id
\* twice.
C27_FavoriteToggle ==
    [][ /\ \A id \in ItemIds :
             lastOp' = "list.favorite:" \o id => Toggled(listState, listState', Str(id))
        /\ lastOp' = "detail.favorite" =>
             Toggled(detailState, detailState', detailView.item.id) ]_vars

\* a favorite was removed from a list that holds another one
C27_Witness ==
    /\ lastOp = "list.favorite:p1"
    /\ listState.favorites = << Str("p2") >>
    /\ listState.sortOrder = "asc"

\* ---------------------------------------------------------------- C28
Occurrences(seq, e) == Cardinality({i \in DOMAIN seq : seq[i] = e})
IsPermutation(a, b) ==
    /\ Len(a) = Len(b)
    /\ \A i \in DOMAIN a : Occurrences(a, a[i]) = Occurrences(b, a[i])
HasValue(entity, k) == Has(entity, k) /\ entity[k] # JsNull /\ entity[k] # Undefined

\* C28: sortEntities returns a permutation of its input; entities whose
\* sort key is null or undefined come after all entities that have a
\* value, for asc and desc; for numeric keys the entities with a value are
\* in non-decreasing order for asc and non-increasing order for desc. The
\* input is not modified: the widget's items are the tool's items.
C28_SortEntities ==
    listView # Null =>
        /\ listView.items = toolResult.structuredContent.items
        /\ \A sortBy \in SortFields, sortOrder \in {"asc", "desc"} :
              LET out == sortEntities(listView.items, sortBy, sortOrder)
              IN /\ IsPermutation(out, listView.items)
                 /\ \A i, j \in DOMAIN out :
                       (~HasValue(out[i], sortBy) /\ HasValue(out[j], sortBy)) => j < i
                 /\ \A i, j \in DOMAIN out :
                       (i < j /\ HasValue(out[i], sortBy) /\ HasValue(out[j], sortBy)
                          /\ out[i][sortBy].t = "number" /\ out[j][sortBy].t = "number") =>
                            IF sortOrder = "asc" THEN out[i][sortBy].v <= out[j][sortBy].v
                            ELSE out[i][sortBy].v >= out[j][sortBy].v
        /\ sortedItems(listView, listState)
              = sortEntities(listView.items, listState.sortBy, listState.sortOrder)

\* the cards are sorted by priority, descending, and the item without a
\* priority, first in the tool's items, is the last card
C28_Witness ==
    /\ listView # Null
    /\ listView.items = << Entity("p3"), Entity("p2") >>
    /\ listState.sortBy = "priority"
    /\ listState.sortOrder = "desc"
    /\ sortedItems(listView, listState) = << Entity("p2"), Entity("p3") >>

\* ---------------------------------------------------------------- C29
NoSelection(state) == ~Has(state, "selectedItem") \/ state.selectedItem = Undefined

\* C29: over any sequence of widget actions from the initial widget state,
\* whenever viewMode is list the selectedItem is undefined, and right after
\* an item click viewMode is detail and selectedItem is the clicked id.
C29_SelectionFollowsMode ==
    /\ \A state \in {listState, detailState} \ {Null} :
          state.viewMode = "list" => NoSelection(state)
    /\ \A id \in ItemIds :
          lastOp = "list.click:" \o id =>
             /\ listState.viewMode = "detail"
             /\ listState.selectedItem = Str(id)

\* a second card was clicked after a sort and a favorite toggle
C29_Witness ==
    /\ lastOp = "list.click:p2"
    /\ listState.sortBy = "priority"
    /\ listState.favorites = << Str("p1") >>

====
